---- MODULE Spec2Model ----
(***************************************************************************)
(* Complex dense / diagonal matrix arithmetic of package mat: CDense.Add,  *)
(* Sub, Mul, Scale and the DiagCDense type.                                *)
(*                                                                         *)
(* complex128 values are Gaussian integers <<re, im>>.  Backing arrays are *)
(* sequences held in mem; a *CDense is a named object whose descriptor     *)
(* (cblas128.General) says which slice of which backing array it uses.     *)
(***************************************************************************)
EXTENDS Integers, Sequences, FiniteSets, TLC

\* Largest row / column count of the matrices drawn as inputs.
MaxDim == 2

VARIABLES mem, dense, diag, pc, call, pre

vars == <<mem, dense, diag, pc, call, pre>>

----------------------------------------------------------------------------
(* complex128 arithmetic *)

CZero == <<0, 0>>

CAdd(u, v) == <<u[1] + v[1], u[2] + v[2]>>

CSub(u, v) == <<u[1] - v[1], u[2] - v[2]>>

CMul(u, v) == <<u[1] * v[1] - u[2] * v[2], u[1] * v[2] + u[2] * v[1]>>

Conj(u) == <<u[1], -u[2]>>

Min(i, j) == IF i < j THEN i ELSE j

----------------------------------------------------------------------------
(* Objects and operands *)

\* The zero value of CDense: no rows, no columns, no backing array.
EmptyDense == [buf |-> "nil", off |-> 0, Rows |-> 0, Cols |-> 0, Stride |-> 0, len |-> 0]

\* The zero value of DiagCDense.
EmptyDiag == [N |-> 0, Inc |-> 0, len |-> 0, store |-> <<>>]

\* A CMatrix handed to an operation: a *CDense, a transposed (T) or
\* conjugate-transposed (H) view of one, or the *DiagCDense.
DenseOp(id, view) == [kind |-> "dense", id |-> id, view |-> view]

DiagOp(id) == [kind |-> "diag", id |-> id, view |-> "N"]

NoOp == [kind |-> "none", id |-> "", view |-> "N"]

\* A running call: the heap it works on and the panic it raised, if any.
Panic(S, e) == [S EXCEPT !.err = e]

\* d.Data[k] lies inside the slice.
Has(d, k) == k >= 0 /\ k < d.len

Load(S, d, k) == S.mem[d.buf][d.off + k + 1]

Store(S, d, k, v) ==
  IF Has(d, k)
  THEN [S EXCEPT !.mem[d.buf][d.off + k + 1] = v]
  ELSE Panic(S, "IndexOutOfRange")

\* DiagCDense.Dims and the views' Dims.
Dims(S, a) ==
  IF a.kind = "diag" THEN <<S.diag[a.id].N, S.diag[a.id].N>>
  ELSE IF a.view = "N" THEN <<S.dense[a.id].Rows, S.dense[a.id].Cols>>
  ELSE <<S.dense[a.id].Cols, S.dense[a.id].Rows>>

\* a.At(r, c) is inside the matrix and inside its backing slice.
AtOK(S, a, r, c) ==
  LET dm == Dims(S, a) IN
  /\ r >= 0 /\ r < dm[1] /\ c >= 0 /\ c < dm[2]
  /\ IF a.kind = "diag"
     THEN r # c \/ S.diag[a.id].Inc * r < S.diag[a.id].len
     ELSE LET d == S.dense[a.id] IN
          IF a.view = "N" THEN Has(d, r * d.Stride + c) ELSE Has(d, c * d.Stride + r)

\* a.At(r, c): the views read the underlying matrix at (c, r), the
\* conjugate transpose conjugating it; a diagonal is zero off its diagonal.
At(S, a, r, c) ==
  IF a.kind = "diag"
  THEN IF r = c THEN S.diag[a.id].store[S.diag[a.id].Inc * r + 1] ELSE CZero
  ELSE LET d == S.dense[a.id] IN
       IF a.view = "N" THEN Load(S, d, r * d.Stride + c)
       ELSE IF a.view = "T" THEN Load(S, d, c * d.Stride + r)
       ELSE Conj(Load(S, d, c * d.Stride + r))

\* untransposeExtractCmplx: the matrix under the views, and what they did.
untransposeExtractCmplx(a) ==
  [u |-> IF a.kind = "dense" THEN DenseOp(a.id, "N") ELSE a,
   trans |-> a.view # "N",
   conj |-> a.view = "H"]

\* The cells of the backing array a dense matrix occupies.
Cells(d) == {d.off + r * d.Stride + c : r \in 0..(d.Rows - 1), c \in 0..(d.Cols - 1)}

\* m.checkOverlap(a): panics when the two matrices share cells.
checkOverlap(S, a) ==
  LET m == S.dense["m"] IN
  m.len > 0 /\ a.len > 0 /\ m.buf = a.buf /\ Cells(m) \cap Cells(a) # {}

\* m.checkOverlapMatrix(a): nothing to check for the receiver itself or for a
\* matrix without raw dense storage.
checkOverlapMatrix(S, u) ==
  u.kind = "dense" /\ u.id # "m" /\ checkOverlap(S, S.dense[u.id])

\* m == aU: the operand's underlying matrix is the receiver itself.
IsReceiver(u) == u.kind = "dense" /\ u.id = "m"

\* a.(*CDense) succeeds: a is a dense matrix, not a view of one.
IsCDense(a) == a.kind = "dense" /\ a.view = "N"

\* CDense.reuseAsNonZeroed: an empty receiver takes the shape r x c in a
\* fresh backing array; a non-empty one must already have it.
reuseAsNonZeroed(S, r, c) ==
  IF r = 0 \/ c = 0 THEN Panic(S, "ErrZeroLength")
  ELSE IF S.dense["m"].Rows = 0 \/ S.dense["m"].Cols = 0
  THEN [S EXCEPT !.dense["m"] = [buf |-> "new", off |-> 0, Rows |-> r, Cols |-> c,
                                 Stride |-> c, len |-> r * c],
                 !.mem["new"] = [i \in 1..(r * c) |-> CZero]]
  ELSE IF r # S.dense["m"].Rows \/ c # S.dense["m"].Cols THEN Panic(S, "ErrShape")
  ELSE S

\* m.isolatedWorkspace: a workspace of the receiver's shape whose contents
\* are whatever the pool held (g).
isolatedWorkspace(S, r, c, g) ==
  [S EXCEPT !.dense["w"] = [buf |-> "ws", off |-> 0, Rows |-> r, Cols |-> c,
                            Stride |-> c, len |-> r * c],
            !.mem["ws"] = [i \in 1..(r * c) |-> g]]

----------------------------------------------------------------------------
(* The element loops.  A loop is a record p naming its kind, the dense      *)
(* object it writes (dst), its operands and its trip counts; Run executes   *)
(* its iterations in the code's order on the current heap, so that a read   *)
(* sees every earlier write.                                                *)

\* Add/Sub fast path, iteration k: row j, column i of the strided buffers.
AddFastStep(S, p, k) ==
  LET j == k \div p.cols
      i == k % p.cols
      amat == S.dense[p.a.id]
      bmat == S.dense[p.b.id]
      mmat == S.dense[p.dst]
      ja == j * amat.Stride
      jb == j * bmat.Stride
      jm == j * mmat.Stride
  IN IF Has(amat, ja + i) /\ Has(bmat, i + jb)
     THEN Store(S, mmat, i + jm,
                IF p.sub THEN CSub(Load(S, amat, ja + i), Load(S, bmat, i + jb))
                ELSE CAdd(Load(S, amat, ja + i), Load(S, bmat, i + jb)))
     ELSE Panic(S, "IndexOutOfRange")

\* Add/Sub generic path: m.set(r, c, a.At(r, c) +/- b.At(r, c)).
AddGenericStep(S, p, k) ==
  LET r == k \div p.cols
      c == k % p.cols
      mmat == S.dense[p.dst]
  IN IF AtOK(S, p.a, r, c) /\ AtOK(S, p.b, r, c)
     THEN Store(S, mmat, r * mmat.Stride + c,
                IF p.sub THEN CSub(At(S, p.a, r, c), At(S, p.b, r, c))
                ELSE CAdd(At(S, p.a, r, c), At(S, p.b, r, c)))
     ELSE Panic(S, "IndexOutOfRange")

\* Scale fast path, untransposed: m.mat.Data[i+jm] = v * f.
ScaleFastStep(S, p, k) ==
  LET j == k \div p.cols
      i == k % p.cols
      amat == S.dense[p.a.id]
      mmat == S.dense[p.dst]
  IN IF Has(amat, j * amat.Stride + i)
     THEN Store(S, mmat, i + j * mmat.Stride, CMul(Load(S, amat, j * amat.Stride + i), p.f))
     ELSE Panic(S, "IndexOutOfRange")

\* Scale fast path, transposed: row j of the underlying matrix becomes
\* column j of the receiver: m.mat.Data[i*m.mat.Stride+jm] = v * f.
ScaleTransStep(S, p, k) ==
  LET j == k \div p.rows
      i == k % p.rows
      amat == S.dense[p.a.id]
      mmat == S.dense[p.dst]
  IN IF Has(amat, j * amat.Stride + i)
     THEN Store(S, mmat, i * mmat.Stride + j, CMul(Load(S, amat, j * amat.Stride + i), p.f))
     ELSE Panic(S, "IndexOutOfRange")

\* Scale generic path: m.set(r, c, f*a.At(r, c)).
ScaleGenericStep(S, p, k) ==
  LET r == k \div p.cols
      c == k % p.cols
      mmat == S.dense[p.dst]
  IN IF AtOK(S, p.a, r, c)
     THEN Store(S, mmat, r * mmat.Stride + c, CMul(p.f, At(S, p.a, r, c)))
     ELSE Panic(S, "IndexOutOfRange")

\* The kernel's op(A)[i, l]: A read by rows, or by columns under blas.Trans.
GemmIdx(d, trans, i, l) == IF trans THEN l * d.Stride + i ELSE i * d.Stride + l

RECURSIVE GemmDot(_, _, _, _, _)
GemmDot(S, p, i, j, l) ==
  IF l >= p.inner THEN CZero
  ELSE CAdd(CMul(Load(S, S.dense[p.a.id], GemmIdx(S.dense[p.a.id], p.aT, i, l)),
                 Load(S, S.dense[p.b.id], GemmIdx(S.dense[p.b.id], p.bT, l, j))),
            GemmDot(S, p, i, j, l + 1))

\* cblas128.Gemm with alpha = 1, beta = 0: C[i, j] = sum_l op(A)[i, l] * op(B)[l, j].
GemmStep(S, p, k) ==
  LET i == k \div p.cols
      j == k % p.cols
      cmat == S.dense[p.dst]
  IN IF \A l \in 0..(p.inner - 1) :
          /\ Has(S.dense[p.a.id], GemmIdx(S.dense[p.a.id], p.aT, i, l))
          /\ Has(S.dense[p.b.id], GemmIdx(S.dense[p.b.id], p.bT, l, j))
     THEN Store(S, cmat, i * cmat.Stride + j, GemmDot(S, p, i, j, 0))
     ELSE Panic(S, "IndexOutOfRange")

\* m.Copy(w): the workspace's entries copied into the receiver.
CopyStep(S, p, k) ==
  LET r == k \div p.cols
      c == k % p.cols
      mmat == S.dense[p.dst]
      wmat == S.dense[p.a.id]
  IN IF Has(wmat, r * wmat.Stride + c)
     THEN Store(S, mmat, r * mmat.Stride + c, Load(S, wmat, r * wmat.Stride + c))
     ELSE Panic(S, "IndexOutOfRange")

Step(S, p, k) ==
  CASE p.kind = "addfast" -> AddFastStep(S, p, k)
    [] p.kind = "addgeneric" -> AddGenericStep(S, p, k)
    [] p.kind = "scalefast" -> ScaleFastStep(S, p, k)
    [] p.kind = "scaletrans" -> ScaleTransStep(S, p, k)
    [] p.kind = "scalegeneric" -> ScaleGenericStep(S, p, k)
    [] p.kind = "gemm" -> GemmStep(S, p, k)
    [] p.kind = "copy" -> CopyStep(S, p, k)

\* Iterations k, k+1, ... of loop p; a panic ends the loop.
RECURSIVE Run(_, _, _)
Run(S, p, k) ==
  IF k >= p.rows * p.cols \/ S.err # "none" THEN S
  ELSE Run(Step(S, p, k), p, k + 1)

Loop(kind, dst, a, b, rows, cols) ==
  [kind |-> kind, dst |-> dst, a |-> a, b |-> b, rows |-> rows, cols |-> cols,
   sub |-> FALSE, f |-> CZero, inner |-> 0, aT |-> FALSE, bT |-> FALSE]

\* The deferred restore of isolatedWorkspace: copy the workspace into the
\* receiver and give the workspace back.  It runs whether or not the call
\* panicked.
restore(S) ==
  LET w == S.dense["w"]
      m == S.dense["m"]
      T == Run([S EXCEPT !.err = "none"],
               Loop("copy", "m", DenseOp("w", "N"), NoOp, Min(w.Rows, m.Rows), Min(w.Cols, m.Cols)), 0)
  IN [T EXCEPT !.err = IF S.err # "none" THEN S.err ELSE T.err,
               !.dense["w"] = EmptyDense,
               !.mem["ws"] = <<>>]

----------------------------------------------------------------------------
(* CDense.Add and CDense.Sub (sub says which) *)

\* The operands of Add/Sub must have equal dimensions.
AddShapeOK(ad, bd) == ad[1] = bd[1] /\ ad[2] = bd[2]

\* AddFast with the overlap checks made after the loop instead of before it.
AddFastChecksLate(S, a, b, aU, bU, sub) ==
  LET ad == Dims(S, a)
      T == Run(S, [Loop("addfast", "m", a, b, ad[1], ad[2]) EXCEPT !.sub = sub], 0)
  IN IF \/ ~IsReceiver(aU.u) /\ checkOverlap(S, S.dense[a.id])
        \/ ~IsReceiver(bU.u) /\ checkOverlap(S, S.dense[b.id])
     THEN Panic(T, "Overlap")
     ELSE T

\* Fast path: both operands are *CDense.  An operand that is not the
\* receiver must not overlap it.
AddFast(S, a, b, aU, bU, sub) ==
  IF \/ ~IsReceiver(aU.u) /\ checkOverlap(S, S.dense[a.id])
     \/ ~IsReceiver(bU.u) /\ checkOverlap(S, S.dense[b.id])
  THEN Panic(S, "Overlap")
  ELSE LET ad == Dims(S, a) IN
       Run(S, [Loop("addfast", "m", a, b, ad[1], ad[2]) EXCEPT !.sub = sub], 0)

\* AddIsolates without the workspace: the generic loop always writes the
\* receiver directly.
AddIsolatesNever(aU, bU) == FALSE

\* The generic path computes into a workspace when the receiver is read
\* through a transposed view.
AddIsolates(aU, bU) ==
  (aU.trans /\ IsReceiver(aU.u)) \/ (bU.trans /\ IsReceiver(bU.u))

AddGeneric(S, a, b, aU, bU, sub, g) ==
  IF checkOverlapMatrix(S, aU.u) \/ checkOverlapMatrix(S, bU.u)
  THEN Panic(S, "Overlap")
  ELSE LET ad == Dims(S, a)
           m == S.dense["m"]
       IN IF AddIsolates(aU, bU)
          THEN restore(Run(isolatedWorkspace(S, m.Rows, m.Cols, g),
                           [Loop("addgeneric", "w", a, b, ad[1], ad[2]) EXCEPT !.sub = sub], 0))
          ELSE Run(S, [Loop("addgeneric", "m", a, b, ad[1], ad[2]) EXCEPT !.sub = sub], 0)

AddSub(S, a, b, sub, g) ==
  LET ad == Dims(S, a)
      bd == Dims(S, b)
      aU == untransposeExtractCmplx(a)
      bU == untransposeExtractCmplx(b)
      S1 == reuseAsNonZeroed(S, ad[1], ad[2])
  IN IF ~AddShapeOK(ad, bd) THEN Panic(S, "ErrShape")
     ELSE IF S1.err # "none" THEN S1
     ELSE IF IsCDense(a) /\ IsCDense(b) THEN AddFast(S1, a, b, aU, bU, sub)
     ELSE AddGeneric(S1, a, b, aU, bU, sub, g)

Add(S, a, b, g) == AddSub(S, a, b, FALSE, g)

Sub(S, a, b, g) == AddSub(S, a, b, TRUE, g)

----------------------------------------------------------------------------
(* CDense.Mul *)

\* The inner dimensions must agree.
MulShapeOK(ad, bd) == ad[2] = bd[1]

\* MulDestDims taking the columns of a instead of the columns of b.
MulDestDimsOfA(ad, bd) == <<ad[1], ad[2]>>

\* The shape the receiver must have or take: rows of a by columns of b.
MulDestDims(ad, bd) == <<ad[1], bd[2]>>

\* Mul computes into a workspace whenever the receiver underlies an operand.
MulIsolates(aU, bU) == IsReceiver(aU.u) \/ IsReceiver(bU.u)

\* MulDispatch that does not tell the kernel that a is transposed.
MulDispatchNoTrans(S, a, b, aU, bU, dst, isolated) ==
  IF aU.u.kind = "dense"
  THEN IF ~isolated /\ checkOverlap(S, S.dense[aU.u.id]) THEN Panic(S, "Overlap")
       ELSE IF bU.u.kind = "dense"
       THEN IF ~isolated /\ checkOverlap(S, S.dense[bU.u.id]) THEN Panic(S, "Overlap")
            ELSE LET ad == Dims(S, a)
                     bd == Dims(S, b)
                 IN Run(S, [Loop("gemm", dst, aU.u, bU.u, ad[1], bd[2])
                            EXCEPT !.inner = ad[2], !.aT = FALSE, !.bT = bU.trans], 0)
       ELSE S
  ELSE S

\* The dispatch at the end of Mul: the kernel when both underlying matrices
\* are *CDense; in every other case the function just returns.
MulDispatch(S, a, b, aU, bU, dst, isolated) ==
  IF aU.u.kind = "dense"
  THEN IF ~isolated /\ checkOverlap(S, S.dense[aU.u.id]) THEN Panic(S, "Overlap")
       ELSE IF bU.u.kind = "dense"
       THEN IF ~isolated /\ checkOverlap(S, S.dense[bU.u.id]) THEN Panic(S, "Overlap")
            ELSE LET ad == Dims(S, a)
                     bd == Dims(S, b)
                 IN Run(S, [Loop("gemm", dst, aU.u, bU.u, ad[1], bd[2])
                            EXCEPT !.inner = ad[2], !.aT = aU.trans, !.bT = bU.trans], 0)
       ELSE S
  ELSE S

Mul(S, a, b, g) ==
  LET ad == Dims(S, a)
      bd == Dims(S, b)
      aU == untransposeExtractCmplx(a)
      bU == untransposeExtractCmplx(b)
      S1 == reuseAsNonZeroed(S, MulDestDims(ad, bd)[1], MulDestDims(ad, bd)[2])
      m == S1.dense["m"]
  IN IF ~MulShapeOK(ad, bd) THEN Panic(S, "ErrShape")
     ELSE IF S1.err # "none" THEN S1
     ELSE IF MulIsolates(aU, bU)
     THEN restore(MulDispatch(isolatedWorkspace(S1, m.Rows, m.Cols, g), a, b, aU, bU, "w", TRUE))
     ELSE MulDispatch(S1, a, b, aU, bU, "m", FALSE)

----------------------------------------------------------------------------
(* CDense.Scale *)

\* ScaleIsolates without the m == aU test: the receiver is checked for
\* overlap against itself.
ScaleIsolatesNever(aU) == FALSE

\* Scale computes into a workspace when the receiver underlies the operand.
ScaleIsolates(aU) == IsReceiver(aU.u)

\* The fast path's two traversals; the conj result of
\* untransposeExtractCmplx is discarded.
ScaleFast(S, f, a, aU, dst) ==
  LET ad == Dims(S, a) IN
  IF ~aU.trans
  THEN Run(S, [Loop("scalefast", dst, aU.u, NoOp, ad[1], ad[2]) EXCEPT !.f = f], 0)
  ELSE Run(S, [Loop("scaletrans", dst, aU.u, NoOp, ad[1], ad[2]) EXCEPT !.f = f], 0)

Scale(S, f, a, g) ==
  LET ad == Dims(S, a)
      S1 == reuseAsNonZeroed(S, ad[1], ad[2])
      aU == untransposeExtractCmplx(a)
  IN IF S1.err # "none" THEN S1
     ELSE IF aU.u.kind = "dense"
     THEN IF ScaleIsolates(aU)
          THEN restore(ScaleFast(isolatedWorkspace(S1, ad[1], ad[2], g), f, a, aU, "w"))
          ELSE IF checkOverlap(S1, S1.dense[aU.u.id]) THEN Panic(S1, "Overlap")
          ELSE ScaleFast(S1, f, a, aU, "m")
     ELSE IF checkOverlapMatrix(S1, aU.u) THEN Panic(S1, "Overlap")
     ELSE Run(S1, [Loop("scalegeneric", "m", a, NoOp, ad[1], ad[2]) EXCEPT !.f = f], 0)

----------------------------------------------------------------------------
(* One call of Add, Sub, Mul or Scale on inputs drawn by Init.            *)

\* Padding of a row beyond its columns (Stride - Cols) of the inputs.
Pads == {0, 1}

\* Contents of an input buffer: distinct values, none real.
Fill(base, n) == [i \in 1..n |-> <<base + i, 2 * i - 1>>]

\* What an unzeroed workspace may hold.
Garbage == {CZero, <<7, 7>>}

Scalars == {<<0, 1>>, <<2, -1>>}

\* A []complex128 argument: nil, or a slice with the given elements.
NilData == [nil |-> TRUE, elems |-> <<>>]

SliceData(elems) == [nil |-> FALSE, elems |-> elems]

NoCall == [op |-> "none", a |-> NoOp, b |-> NoOp, f |-> CZero, n |-> 0, data |-> NilData,
           err |-> "none"]

\* The receiver m is empty or has one of the shapes an operation on x and y
\* can produce; x is r x c, in its own array or a slice of m's array; y is
\* r x c or c x r; the diagonal d has r or c entries.
Init ==
  \E r \in 1..MaxDim, c \in 1..MaxDim, mpad \in Pads, xpad \in Pads, yflip \in BOOLEAN :
  \E ms \in {<<0, 0>>, <<r, c>>, <<c, r>>, <<r, r>>, <<c, c>>},
     xmode \in {"own", "at0", "at1"}, dn \in {r, c} :
    LET mstride == ms[2] + mpad
        md == IF ms = <<0, 0>> THEN EmptyDense
              ELSE [buf |-> "bm", off |-> 0, Rows |-> ms[1], Cols |-> ms[2],
                    Stride |-> mstride, len |-> (ms[1] - 1) * mstride + ms[2]]
        xd == IF xmode = "own"
              THEN [buf |-> "bx", off |-> 0, Rows |-> r, Cols |-> c,
                    Stride |-> c + xpad, len |-> (r - 1) * (c + xpad) + c]
              ELSE [buf |-> "bm", off |-> IF xmode = "at0" THEN 0 ELSE 1, Rows |-> r,
                    Cols |-> c, Stride |-> mstride, len |-> (r - 1) * mstride + c]
        yd == IF yflip
              THEN [buf |-> "by", off |-> 0, Rows |-> c, Cols |-> r, Stride |-> r, len |-> r * c]
              ELSE [buf |-> "by", off |-> 0, Rows |-> r, Cols |-> c, Stride |-> c, len |-> r * c]
    IN /\ ms = <<0, 0>> => mpad = 0
       /\ xmode # "own" => /\ xpad = 0
                           /\ ms # <<0, 0>>
                           /\ c <= mstride
                           /\ xd.off + xd.len <= ms[1] * mstride
       /\ r = c => ~yflip
       /\ mem = [b \in {"nil", "bm", "bx", "by", "new", "ws"} |->
                   CASE b = "bm" -> Fill(0, ms[1] * mstride)
                     [] b = "bx" -> IF xmode = "own" THEN Fill(3, r * (c + xpad)) ELSE <<>>
                     [] b = "by" -> Fill(6, r * c)
                     [] OTHER -> <<>>]
       /\ dense = [o \in {"m", "x", "y", "w"} |->
                   CASE o = "m" -> md
                     [] o = "x" -> xd
                     [] o = "y" -> yd
                     [] OTHER -> EmptyDense]
       /\ diag = [o \in {"d", "e"} |->
                   IF o = "d" THEN [N |-> dn, Inc |-> 1, len |-> dn, store |-> Fill(9, dn)]
                   ELSE EmptyDiag]
       /\ pc = "ready"
       /\ call = NoCall
       /\ pre = [mem |-> mem, dense |-> dense, diag |-> diag]

Cur == [mem |-> mem, dense |-> dense, diag |-> diag, err |-> "none"]

\* The operands of a call: the three dense matrices, plain or transposed,
\* and the diagonal; Scale is also given conjugate-transposed views.
Operands == {DenseOp(o, v) : o \in {"m", "x", "y"}, v \in {"N", "T"}} \cup {DiagOp("d")}

ScaleOperands == Operands \cup {DenseOp(o, "H") : o \in {"m", "x", "y"}}

\* The call returns or panics with heap R; the heap before it is kept in pre.
Return(op, a, b, f, R) ==
  /\ pc = "ready"
  /\ pc' = "done"
  /\ pre' = [mem |-> mem, dense |-> dense, diag |-> diag]
  /\ mem' = R.mem
  /\ dense' = R.dense
  /\ diag' = R.diag
  /\ call' = [NoCall EXCEPT !.op = op, !.a = a, !.b = b, !.f = f, !.err = R.err]

CallAdd == \E a \in Operands, b \in Operands, g \in Garbage :
  Return("Add", a, b, CZero, Add(Cur, a, b, g))

CallSub == \E a \in Operands, b \in Operands, g \in Garbage :
  Return("Sub", a, b, CZero, Sub(Cur, a, b, g))

CallMul == \E a \in Operands, b \in Operands, g \in Garbage :
  Return("Mul", a, b, CZero, Mul(Cur, a, b, g))

CallScale == \E a \in ScaleOperands, f \in Scalars, g \in Garbage :
  Return("Scale", a, NoOp, f, Scale(Cur, f, a, g))

Next == CallAdd \/ CallSub \/ CallMul \/ CallScale

Spec == Init /\ [][Next]_vars

----------------------------------------------------------------------------
(* DiagCDense *)

\* NewDiagCDense allocating for any empty data (len(data) == 0) instead of
\* for nil data only.
NewDiagCDenseEmptyAsNil(n, data) ==
  LET elems == IF Len(data.elems) = 0 THEN [i \in 1..n |-> CZero] ELSE data.elems IN
  IF n <= 0
  THEN [err |-> IF n = 0 THEN "ErrZeroLength" ELSE "NegativeDimension", d |-> EmptyDiag]
  ELSE IF Len(elems) # n THEN [err |-> "ErrShape", d |-> EmptyDiag]
  ELSE [err |-> "none", d |-> [N |-> n, Inc |-> 1, len |-> n, store |-> elems]]

\* NewDiagCDense(n, data): the new diagonal, or the panic.
NewDiagCDense(n, data) ==
  LET elems == IF data.nil THEN [i \in 1..n |-> CZero] ELSE data.elems IN
  IF n <= 0
  THEN [err |-> IF n = 0 THEN "ErrZeroLength" ELSE "NegativeDimension", d |-> EmptyDiag]
  ELSE IF Len(elems) # n THEN [err |-> "ErrShape", d |-> EmptyDiag]
  ELSE [err |-> "none", d |-> [N |-> n, Inc |-> 1, len |-> n, store |-> elems]]

\* d.Diag() and d.Dims().
Diag(d) == d.N

DiagDims(d) == <<d.N, d.N>>

\* d.IsEmpty().
IsEmpty(d) == d.Inc = 0

\* Reset that zeroes N and leaves Inc.
ResetKeepsInc(d) == [d EXCEPT !.N = 0, !.len = 0]

\* d.Reset(): Inc and N zeroed together, Data cut to length 0 (its array kept).
Reset(d) == [d EXCEPT !.Inc = 0, !.N = 0, !.len = 0]

\* useC(f, l): the slice f[:l] when the array is large enough, else a new
\* zeroed slice.
useC(d, l) ==
  IF l <= Len(d.store) THEN [len |-> l, store |-> d.store]
  ELSE [len |-> l, store |-> [i \in 1..l |-> CZero]]

\* d.reuseAsNonZeroed(r) without the size check of a non-empty receiver.
DiagReuseNoShapeCheck(S, r) ==
  LET d == S.diag["d"] IN
  IF r = 0 THEN Panic(S, "ErrZeroLength")
  ELSE IF IsEmpty(d)
  THEN [S EXCEPT !.diag["d"] = [N |-> r, Inc |-> 1, len |-> useC(d, r).len,
                                store |-> useC(d, r).store]]
  ELSE S

\* d.reuseAsNonZeroed(r).
DiagReuseAsNonZeroed(S, r) ==
  LET d == S.diag["d"] IN
  IF r = 0 THEN Panic(S, "ErrZeroLength")
  ELSE IF IsEmpty(d)
  THEN [S EXCEPT !.diag["d"] = [N |-> r, Inc |-> 1, len |-> useC(d, r).len,
                                store |-> useC(d, r).store]]
  ELSE IF r # d.N THEN Panic(S, "ErrShape")
  ELSE S

\* d.mat.Data[k] = v.
DiagStore(S, k, v) ==
  IF k >= 0 /\ k < S.diag["d"].len
  THEN [S EXCEPT !.diag["d"].store[k + 1] = v]
  ELSE Panic(S, "IndexOutOfRange")

\* d.Zero(): d.mat.Data[d.mat.Inc*i] = 0 for i < N.
RECURSIVE ZeroLoop(_, _)
ZeroLoop(S, i) ==
  IF i >= S.diag["d"].N \/ S.err # "none" THEN S
  ELSE ZeroLoop(DiagStore(S, S.diag["d"].Inc * i, CZero), i + 1)

Zero(S) == ZeroLoop(S, 0)

\* DiagFrom, m not a *DiagCDense: d.setDiag(i, m.At(i, i)) for i < n.
RECURSIVE SetDiagLoop(_, _, _, _)
SetDiagLoop(S, m, n, i) ==
  IF i >= n \/ S.err # "none" THEN S
  ELSE IF ~AtOK(S, m, i, i) THEN Panic(S, "IndexOutOfRange")
  ELSE SetDiagLoop(DiagStore(S, S.diag["d"].Inc * i, At(S, m, i, i)), m, n, i + 1)

\* cblas128.Copy(x, y) with y the receiver: y[i*incY] = x[i*incX] for i < N.
RECURSIVE CopyLoop(_, _, _)
CopyLoop(S, x, i) ==
  IF i >= x.N \/ S.err # "none" THEN S
  ELSE IF ~(x.Inc * i < x.len) THEN Panic(S, "IndexOutOfRange")
  ELSE CopyLoop(DiagStore(S, S.diag["d"].Inc * i, x.store[x.Inc * i + 1]), x, i + 1)

Copy(S, x) ==
  IF x.N # S.diag["d"].N THEN Panic(S, "badLength") ELSE CopyLoop(S, x, 0)

\* d.DiagFrom(m).
DiagFrom(S, m) ==
  LET n == Min(Dims(S, m)[1], Dims(S, m)[2])
      S1 == DiagReuseAsNonZeroed(S, n)
  IN IF S1.err # "none" THEN S1
     ELSE IF m.kind = "diag" THEN Copy(S1, S1.diag[m.id])
     ELSE SetDiagLoop(S1, m, n, 0)

----------------------------------------------------------------------------
(* The life of a DiagCDense d: any sequence of NewDiagCDense, Reset, Zero   *)
(* and DiagFrom calls, from the zero value.  The matrices DiagFrom reads:   *)
(* the dense x (plain or through a view), the empty dense m, the diagonal e *)
(* of increment 1 or 2, and d itself.                                       *)

Incs == {1, 2}

InitDiag ==
  \E r \in 1..MaxDim, c \in 1..MaxDim, en \in 0..MaxDim, einc \in Incs :
    /\ en = 0 => einc = 1
    /\ mem = [b \in {"nil", "bm", "bx", "by", "new", "ws"} |->
                IF b = "bx" THEN Fill(3, r * c) ELSE <<>>]
    /\ dense = [o \in {"m", "x", "y", "w"} |->
                IF o = "x" THEN [buf |-> "bx", off |-> 0, Rows |-> r, Cols |-> c,
                                 Stride |-> c, len |-> r * c]
                ELSE EmptyDense]
    /\ diag = [o \in {"d", "e"} |->
                IF o = "e" /\ en > 0
                THEN [N |-> en, Inc |-> einc, len |-> (en - 1) * einc + 1,
                      store |-> Fill(12, (en - 1) * einc + 1)]
                ELSE EmptyDiag]
    /\ pc = "ready"
    /\ call = NoCall
    /\ pre = [mem |-> mem, dense |-> dense, diag |-> diag]

Sources == {DenseOp("x", "N"), DenseOp("x", "T"), DenseOp("m", "N"), DiagOp("e"), DiagOp("d")}

DataArgs == {NilData, SliceData(<<>>)} \cup {SliceData(Fill(20, k)) : k \in 1..(MaxDim + 1)}

\* A call on d returns or panics with heap R.
ReturnDiag(op, a, n, data, R) ==
  /\ pc' = pc
  /\ pre' = [mem |-> mem, dense |-> dense, diag |-> diag]
  /\ mem' = R.mem
  /\ dense' = R.dense
  /\ diag' = R.diag
  /\ call' = [NoCall EXCEPT !.op = op, !.a = a, !.n = n, !.data = data, !.err = R.err]

CallNewDiagCDense == \E n \in (-1)..MaxDim, data \in DataArgs :
  LET new == NewDiagCDense(n, data) IN
  ReturnDiag("NewDiagCDense", NoOp, n, data,
             IF new.err = "none" THEN [Cur EXCEPT !.diag["d"] = new.d]
             ELSE Panic(Cur, new.err))

CallReset == ReturnDiag("Reset", NoOp, 0, NilData, [Cur EXCEPT !.diag["d"] = Reset(diag["d"])])

CallZero == ReturnDiag("Zero", NoOp, 0, NilData, Zero(Cur))

CallDiagFrom == \E m \in Sources : ReturnDiag("DiagFrom", m, 0, NilData, DiagFrom(Cur, m))

NextDiag == CallNewDiagCDense \/ CallReset \/ CallZero \/ CallDiagFrom

SpecDiag == InitDiag /\ [][NextDiag]_vars

----------------------------------------------------------------------------
(* Properties of one call (Spec).  Pre is the heap before the call, Post   *)
(* the heap after it, M the receiver.                                      *)

Pre == [mem |-> pre.mem, dense |-> pre.dense, diag |-> pre.diag, err |-> "none"]

Post == [mem |-> mem, dense |-> dense, diag |-> diag, err |-> "none"]

M == DenseOp("m", "N")

Returned(ops) == pc = "done" /\ call.op \in ops /\ call.err = "none"

Entries(dm) == (0..(dm[1] - 1)) \X (0..(dm[2] - 1))

\* sum over k <= last of a.at(r, k) * b.at(k, c)
RECURSIVE SumProd(_, _, _, _, _, _)
SumProd(S, a, b, r, c, last) ==
  IF last < 0 THEN CZero
  ELSE CAdd(SumProd(S, a, b, r, c, last - 1), CMul(At(S, a, r, last), At(S, b, last, c)))

\* The receiver holds the product of the operands as they were before the call.
HoldsProduct ==
  /\ Dims(Post, M) = <<Dims(Pre, call.a)[1], Dims(Pre, call.b)[2]>>
  /\ \A e \in Entries(Dims(Post, M)) :
       At(Post, M, e[1], e[2]) = SumProd(Pre, call.a, call.b, e[1], e[2], Dims(Pre, call.a)[2] - 1)

\* The receiver has the dimensions and the entries it had before the call.
DestUnchanged ==
  /\ dense["m"] = pre.dense["m"]
  /\ mem[dense["m"].buf] = pre.mem[dense["m"].buf]

\* C1: after a successful Add (Sub) the receiver has the operands' shape and
\* every entry is a.at(r,c) + b.at(r,c) (a.at(r,c) - b.at(r,c)) of the
\* operands' values before the call, whether or not the receiver underlies
\* an operand, directly or through a transposed view.
C1_AddSubEntries ==
  Returned({"Add", "Sub"}) =>
    /\ Dims(Post, M) = Dims(Pre, call.a)
    /\ \A e \in Entries(Dims(Post, M)) :
         At(Post, M, e[1], e[2]) =
           IF call.op = "Add"
           THEN CAdd(At(Pre, call.a, e[1], e[2]), At(Pre, call.b, e[1], e[2]))
           ELSE CSub(At(Pre, call.a, e[1], e[2]), At(Pre, call.b, e[1], e[2]))

\* m.Add(m.T(), d) returned, for a 2 x 2 or larger m.
C1_Witness ==
  /\ Returned({"Add"})
  /\ call.a = DenseOp("m", "T")
  /\ call.b.kind = "diag"
  /\ dense["m"].Rows >= 2

\* C2: after a successful Mul of dense operands, each plain or a transposed
\* view, every entry of the receiver is the sum over k of a.at(r,k)*b.at(k,c)
\* of the operands' values before the call (a transposed view reading the
\* transpose), also when the receiver underlies a or b.
C2_MulEntries ==
  (Returned({"Mul"}) /\ call.a.kind = "dense" /\ call.b.kind = "dense") => HoldsProduct

\* m.Mul(m.T(), y) returned, for a 2 x 2 or larger m.
C2_Witness ==
  /\ Returned({"Mul"})
  /\ call.a = DenseOp("m", "T")
  /\ call.b = DenseOp("y", "N")
  /\ dense["m"].Rows >= 2

\* C3: a Mul whose inner dimensions agree and one of whose operands is a
\* DiagCDense either fails or leaves the product in the receiver.
C3_MulDiagFailsOrMultiplies ==
  (/\ pc = "done"
   /\ call.op = "Mul"
   /\ MulShapeOK(Dims(Pre, call.a), Dims(Pre, call.b))
   /\ (call.a.kind = "diag" \/ call.b.kind = "diag"))
  => (call.err # "none" \/ HoldsProduct)

\* C4: m.Scale(k, m) on a non-empty m succeeds, and after m.Scale(k, m) or
\* m.Scale(k, m.T()) the receiver has its former shape and every entry is k
\* times the operand's entry before the call.
C4_ScaleInPlace ==
  /\ (pc = "done" /\ call.op = "Scale" /\ call.a = M /\ pre.dense["m"].Rows > 0)
       => call.err = "none"
  /\ (Returned({"Scale"}) /\ call.a \in {M, DenseOp("m", "T")}) =>
       /\ Dims(Post, M) = Dims(Pre, M)
       /\ \A e \in Entries(Dims(Post, M)) :
            At(Post, M, e[1], e[2]) = CMul(call.f, At(Pre, call.a, e[1], e[2]))

\* m.Scale(k, m.T()) returned, for a 2 x 2 or larger m.
C4_Witness ==
  /\ Returned({"Scale"})
  /\ call.a = DenseOp("m", "T")
  /\ dense["m"].Rows >= 2

\* C5: Add and Sub of operands of unequal dimensions and Mul with
\* cols_a # rows_b fail with ErrShape, and a call that fails, for whatever
\* reason, leaves the receiver with the dimensions and entries it had.
C5_FailureLeavesDest ==
  /\ (pc = "done" /\ call.op \in {"Add", "Sub"}
        /\ Dims(Pre, call.a) # Dims(Pre, call.b)) => call.err = "ErrShape"
  /\ (pc = "done" /\ call.op = "Mul"
        /\ Dims(Pre, call.a)[2] # Dims(Pre, call.b)[1]) => call.err = "ErrShape"
  /\ (pc = "done" /\ call.err # "none") => DestUnchanged

\* An Add whose operand overlaps the non-empty receiver has failed.
C5_Witness ==
  /\ pc = "done"
  /\ call.op = "Add"
  /\ call.err = "Overlap"
  /\ pre.dense["m"].Rows > 0

\* C6: a successful Add/Sub leaves dims(m) = dims(a) = dims(b), a successful
\* Mul dims(m) = (rows_a, cols_b), a successful Scale dims(m) = dims(a); an
\* empty receiver is given that shape by the call, and a non-empty receiver
\* keeps its shape and storage.
C6_DestShape ==
  /\ Returned({"Add", "Sub"}) =>
       (Dims(Post, M) = Dims(Pre, call.a) /\ Dims(Post, M) = Dims(Pre, call.b))
  /\ Returned({"Mul"}) =>
       Dims(Post, M) = <<Dims(Pre, call.a)[1], Dims(Pre, call.b)[2]>>
  /\ Returned({"Scale"}) => Dims(Post, M) = Dims(Pre, call.a)
  /\ (pc = "done" /\ pre.dense["m"].Rows > 0) => dense["m"] = pre.dense["m"]

\* An Add into an empty receiver returned and the receiver has rows.
C6_Witness ==
  /\ Returned({"Add"})
  /\ pre.dense["m"] = EmptyDense
  /\ dense["m"].Rows > 0
  /\ dense["m"].Rows # dense["m"].Cols

\* C10: a successful Scale of a dense operand that is not the receiver, plain
\* or through a transposed or conjugate-transposed view, leaves
\* k * a.at(r,c) in every entry, the conjugate-transposed view reading the
\* conjugate of the underlying entry at (c, r).
C10_ScaleAgreesWithAt ==
  (Returned({"Scale"}) /\ call.a.kind = "dense" /\ call.a.id # "m") =>
    /\ Dims(Post, M) = Dims(Pre, call.a)
    /\ \A e \in Entries(Dims(Post, M)) :
         At(Post, M, e[1], e[2]) = CMul(call.f, At(Pre, call.a, e[1], e[2]))

----------------------------------------------------------------------------
(* Properties of the DiagCDense d (SpecDiag). *)

D == DiagOp("d")

Called(op) == call.op = op

\* C7: the increment of d is 0 exactly when its dimension is 0, and then its
\* data has length 0; so IsEmpty() is true exactly when Dims() is (0, 0).
C7_EmptyStateConsistent ==
  /\ diag["d"].Inc = 0 <=> diag["d"].N = 0
  /\ diag["d"].Inc = 0 => diag["d"].len = 0
  /\ IsEmpty(diag["d"]) <=> DiagDims(diag["d"]) = <<0, 0>>

\* A non-empty d has been Reset.
C7_Witness ==
  /\ Called("Reset")
  /\ pre.diag["d"].N > 0
  /\ IsEmpty(diag["d"])

\* The panics of NewDiagCDense for n <= 0.
InvalidDimension == {"ErrZeroLength", "NegativeDimension"}

\* NewDiagCDense returned a diagonal of n entries elems, increment 1.
NewYields(elems) ==
  /\ call.err = "none"
  /\ diag["d"].N = call.n
  /\ diag["d"].Inc = 1
  /\ diag["d"].len = call.n
  /\ \A i \in 0..(call.n - 1) : \A j \in 0..(call.n - 1) :
       At(Post, D, i, j) = IF i = j THEN elems[i + 1] ELSE CZero

\* C8 as claimed: n <= 0 fails with InvalidDimension; non-empty data of
\* length # n fails with ErrShape; empty or absent data yields n zeros;
\* otherwise the entries are data[0..n-1], with increment 1.
C8_NewAsClaimed ==
  Called("NewDiagCDense") =>
    /\ call.n <= 0 => call.err \in InvalidDimension
    /\ (call.n > 0 /\ Len(call.data.elems) # 0 /\ Len(call.data.elems) # call.n)
         => call.err = "ErrShape"
    /\ (call.n > 0 /\ Len(call.data.elems) = 0)
         => NewYields([i \in 1..call.n |-> CZero])
    /\ (call.n > 0 /\ Len(call.data.elems) = call.n) => NewYields(call.data.elems)

\* C8 amended: n <= 0 fails with InvalidDimension; data that is not nil and
\* whose length is not n, an empty slice included, fails with ErrShape; nil
\* data yields n zeros; otherwise the entries are data[0..n-1], with
\* increment 1.
C8_NewAmended ==
  Called("NewDiagCDense") =>
    /\ call.n <= 0 => call.err \in InvalidDimension
    /\ (call.n > 0 /\ ~call.data.nil /\ Len(call.data.elems) # call.n)
         => call.err = "ErrShape"
    /\ (call.n > 0 /\ call.data.nil) => NewYields([i \in 1..call.n |-> CZero])
    /\ (call.n > 0 /\ ~call.data.nil /\ Len(call.data.elems) = call.n)
         => NewYields(call.data.elems)

\* NewDiagCDense(n, data) with an empty, non-nil data and n > 0 has panicked.
C8_Witness ==
  /\ Called("NewDiagCDense")
  /\ call.n > 0
  /\ ~call.data.nil
  /\ call.data.elems = <<>>
  /\ call.err = "ErrShape"

\* C9: with n = min(rows_m, cols_m) > 0, DiagFrom(m) succeeds when d is empty
\* or of size n, and then d has size n, d.at(i,i) = m.at(i,i) for i < n and
\* d.at(i,j) = 0 off the diagonal; when d is non-empty of another size it
\* fails with ErrShape, and when n = 0 with ErrZeroLength, d unchanged in
\* both cases.
C9_DiagFrom ==
  Called("DiagFrom") =>
    LET n == Min(Dims(Pre, call.a)[1], Dims(Pre, call.a)[2])
        d0 == pre.diag["d"]
    IN /\ (n > 0 /\ (IsEmpty(d0) \/ d0.N = n)) =>
            /\ call.err = "none"
            /\ DiagDims(diag["d"]) = <<n, n>>
            /\ \A i \in 0..(n - 1) : \A j \in 0..(n - 1) :
                 At(Post, D, i, j) = IF i = j THEN At(Pre, call.a, i, i) ELSE CZero
       /\ (n > 0 /\ ~IsEmpty(d0) /\ d0.N # n) =>
            (call.err = "ErrShape" /\ diag["d"] = d0)
       /\ n = 0 => (call.err = "ErrZeroLength" /\ diag["d"] = d0)

\* DiagFrom has copied a two-entry diagonal of increment 2 into d.
C9_Witness ==
  /\ Called("DiagFrom")
  /\ call.a = DiagOp("e")
  /\ diag["e"].Inc = 2
  /\ diag["e"].N = 2
  /\ call.err = "none"

====
